---- MODULE Spec2Model ----
(***************************************************************************)
(* The scoring and analytics engine of the mahjong score dashboard         *)
(* (src/app.py): the load-time rank/uma transform of the long-form score   *)
(* table and the four Dash callbacks that filter it by date and aggregate. *)
(*                                                                         *)
(* Players are the integers 1..NumPlayers, standing for the CSV's player   *)
(* columns in ascending label order; dates are day numbers; scores are     *)
(* integers.  Quotients (means, rates) are kept exact as [num, den].       *)
(* A leaderboard's value column (Pt, UmaScore, the avoidance rate,         *)
(* Adjusted) is the field value, its position column the field position.   *)
(***************************************************************************)
EXTENDS Integers, Sequences, FiniteSets, TLC

VARIABLES df, long_df, bapp_dict, argsort_ties, loaded, calls

vars == <<df, long_df, bapp_dict, argsort_ties, loaded, calls>>

(***************************************************************************)
(* Bounds of the model and constants of the program                        *)
(***************************************************************************)
MaxGames == 3
MaxDate == 2

NumPlayers == 4
Players == 1..NumPlayers
Dates == 1..MaxDate

\* A uma table that does not sum to zero.
rank2uma_last_typo == (1 :> 20) @@ (2 :> 10) @@ (3 :> -10) @@ (4 :> -30)

rank2uma == (1 :> 20) @@ (2 :> 10) @@ (3 :> -10) @@ (4 :> -20)

Metrics == {"Score", "UmaScore", "Rank"}

\* The score rows a game is drawn from (in thousands of points, 100 a table):
\* a tie for second place, a strict order, and a third order of finish.
ScoreRows == {<<40, 25, 25, 10>>, <<10, 20, 30, 40>>, <<25, 40, 0, 35>>}

\* One row of mahjong_scores.csv: a date and one score per player column.
GameRows == [Date : Dates, Score : ScoreRows]

\* The score files the model loads: 1..MaxGames rows, entered in date order.
ScoreFiles ==
  UNION {{s \in [1..n -> GameRows] : \A i \in 1..(n - 1) : s[i].Date <= s[i + 1].Date} :
           n \in 1..MaxGames}

\* The single data row of bapp.csv as a dict; players without a column are absent.
BappDicts == {(1 :> -100) @@ (2 :> 250) @@ (3 :> 0)}

\* What the numpy build under the program decides and the source does not: the
\* order in which sort_values, called with its default kind="quicksort" (not a
\* stable sort), leaves rows with equal keys.
TieOrders == {"input_order", "reversed"}

(***************************************************************************)
(* Sequence helpers                                                        *)
(***************************************************************************)
RECURSIVE SumSeq(_)
SumSeq(s) == IF s = <<>> THEN 0 ELSE Head(s) + SumSeq(Tail(s))

RECURSIVE Concat(_)
Concat(ss) == IF ss = <<>> THEN <<>> ELSE Head(ss) \o Concat(Tail(ss))

Column(frame, name) == [i \in 1..Len(frame) |-> frame[i][name]]

MaxOf(s) == CHOOSE x \in {s[i] : i \in 1..Len(s)} : \A i \in 1..Len(s) : s[i] <= x
MinOf(s) == CHOOSE x \in {s[i] : i \in 1..Len(s)} : \A i \in 1..Len(s) : x <= s[i]

\* The elements of a set of integers in ascending order.
Ascending(S) ==
  [p \in 1..Cardinality(S) |-> CHOOSE x \in S : Cardinality({y \in S : y < x}) = p - 1]

(***************************************************************************)
(* pandas primitives                                                       *)
(***************************************************************************)
Frac(n, d) == [num |-> n, den |-> d]
FracLess(a, b) == a.num * b.den < b.num * a.den

\* The permutation numpy's argsort hands back to sort_values: position p holds
\* the index of the p-th row.  The keys are quotients (an integer is n/1).
\* An unstable sort may leave rows with equal keys in any order; the model
\* takes two of them, input order and its reverse, as the build decides.
Argsort(keys, ascending) ==
  LET n == Len(keys)
      Before(a, b) == IF ascending THEN FracLess(a, b) ELSE FracLess(b, a)
      Same(j, i) == ~Before(keys[j], keys[i]) /\ ~Before(keys[i], keys[j])
      First(j, i) == \/ Before(keys[j], keys[i])
                     \/ /\ Same(j, i)
                        /\ IF argsort_ties = "input_order" THEN j < i ELSE j > i
      pos == [i \in 1..n |-> 1 + Cardinality({j \in 1..n : First(j, i)})]
  IN [p \in 1..n |-> CHOOSE i \in 1..n : pos[i] = p]

\* DataFrame.sort_values(by, ascending).reset_index(drop=True), by a column of quotients
sort_values_frac(frame, by, ascending) ==
  LET idx == Argsort([i \in 1..Len(frame) |-> frame[i][by]], ascending)
  IN [p \in 1..Len(frame) |-> frame[idx[p]]]

\* ... and by a column of integers
sort_values(frame, by, ascending) ==
  LET idx == Argsort([i \in 1..Len(frame) |-> Frac(frame[i][by], 1)], ascending)
  IN [p \in 1..Len(frame) |-> frame[idx[p]]]

\* The distinct values of a column in ascending order: the group keys of groupby(name).
GroupKeys(frame, name) == Ascending({frame[i][name] : i \in 1..Len(frame)})

\* The rows of one group, in frame order.
Group(frame, name, key) == SelectSeq(frame, LAMBDA r : r[name] = key)

(***************************************************************************)
(* Load: wide table -> long table -> rank and uma per game                 *)
(***************************************************************************)
\* df.reset_index() / rename / melt: one row per (game, player), player columns
\* in turn, GameID the 0-based row position.
melt(wide) ==
  LET n == Len(wide)
  IN [k \in 1..(n * NumPlayers) |->
        LET p == ((k - 1) \div n) + 1
            g == ((k - 1) % n) + 1
        IN [GameID |-> g - 1, Date |-> wide[g].Date, Player |-> p,
            Score |-> wide[g].Score[p]]]

\* Rank as 1 + the number of strictly better scores: equal scores share a rank.
compute_uma_and_rank_shared(group) ==
  LET sorted == sort_values(group, "Score", FALSE)
      rank(i) == 1 + Cardinality({j \in 1..Len(sorted) : sorted[j].Score > sorted[i].Score})
  IN [i \in 1..Len(sorted) |->
        [GameID |-> sorted[i].GameID, Date |-> sorted[i].Date,
         Player |-> sorted[i].Player, Score |-> sorted[i].Score,
         Rank |-> rank(i),
         UmaScore |-> sorted[i].Score + rank2uma[rank(i)],
         UmaScore_x50 |-> (sorted[i].Score + rank2uma[rank(i)]) * 50]]

compute_uma_and_rank(group) ==
  LET sorted == sort_values(group, "Score", FALSE)
  IN [i \in 1..Len(sorted) |->
        [GameID |-> sorted[i].GameID, Date |-> sorted[i].Date,
         Player |-> sorted[i].Player, Score |-> sorted[i].Score,
         Rank |-> i,
         UmaScore |-> sorted[i].Score + rank2uma[i],
         UmaScore_x50 |-> (sorted[i].Score + rank2uma[i]) * 50]]

\* long_df.groupby(["GameID", "Date"], group_keys=False).apply(compute_uma_and_rank)
groupby_apply(frame) ==
  LET keys == GroupKeys(frame, "GameID")
  IN Concat([k \in 1..Len(keys) |-> compute_uma_and_rank(Group(frame, "GameID", keys[k]))])

Idle == [pc |-> "idle", callback |-> "none", start_date |-> 0, end_date |-> 0,
         metric |-> "none", dff |-> <<>>, out |-> <<>>]

InitWith(Workers) ==
  /\ df \in ScoreFiles
  /\ long_df = melt(df)
  /\ bapp_dict \in BappDicts
  /\ argsort_ties \in TieOrders
  /\ loaded = FALSE
  /\ calls = [w \in Workers |-> Idle]

Init == InitWith({1})

\* Module level, src/app.py line 49: the rank/uma transform of every game.
GroupbyApply ==
  /\ ~loaded
  /\ long_df' = groupby_apply(long_df)
  /\ loaded' = TRUE
  /\ UNCHANGED <<df, bapp_dict, argsort_ties, calls>>

(***************************************************************************)
(* Queries: each callback filters long_df by date, then aggregates         *)
(***************************************************************************)
\* The end date left out of the range.
date_filter_open_end(frame, start_date, end_date) ==
  SelectSeq(frame, LAMBDA r : r.Date >= start_date /\ r.Date < end_date)

\* mask = (long_df["Date"] >= start_date) & (long_df["Date"] <= end_date)
\* dff = long_df.loc[mask].copy()
date_filter(frame, start_date, end_date) ==
  SelectSeq(frame, LAMBDA r : r.Date >= start_date /\ r.Date <= end_date)

\* bapp_dict.get(player, 0)
bapp_get(player) == IF player \in DOMAIN bapp_dict THEN bapp_dict[player] ELSE 0

\* frame.iloc[0]["Pt"]: IndexError on a frame without rows.
iloc0(frame) ==
  IF Len(frame) >= 1 THEN [exception |-> "None", value |-> frame[1].value]
                     ELSE [exception |-> "IndexError", value |-> 0]

\* The leader's total read without the emptiness test.
top_pt_unguarded(sorted) == iloc0(sorted)

\* top_pt = point_summary.iloc[0]["Pt"] if not point_summary.empty else 0
top_pt(sorted) ==
  IF sorted # <<>> THEN iloc0(sorted) ELSE [exception |-> "None", value |-> 0]

\* A sorted leaderboard with its 1-based position column.
WithPosition(sorted) ==
  [i \in 1..Len(sorted) |-> [position |-> i, Player |-> sorted[i].Player, value |-> sorted[i].value]]

\* (1) total raw score per player, descending
point_sorted(dff) ==
  LET keys == GroupKeys(dff, "Player")
      sums == [k \in 1..Len(keys) |->
                 [Player |-> keys[k],
                  value |-> SumSeq(Column(Group(dff, "Player", keys[k]), "Score"))]]
  IN sort_values(sums, "value", FALSE)

\* ... with the gap to the leader and the position
point_summary(dff) ==
  LET sorted == point_sorted(dff)
      top == top_pt(sorted).value
  IN [i \in 1..Len(sorted) |->
        [position |-> i, Player |-> sorted[i].Player, value |-> sorted[i].value,
         PT_diff |-> top - sorted[i].value]]

\* (2a) best single-game UmaScore per player, descending
highest_score(dff) ==
  LET keys == GroupKeys(dff, "Player")
      best == [k \in 1..Len(keys) |->
                 [Player |-> keys[k],
                  value |-> MaxOf(Column(Group(dff, "Player", keys[k]), "UmaScore"))]]
  IN WithPosition(sort_values(best, "value", FALSE))

\* The share of games finished fourth, not of games not finished fourth.
avoidance_not_subtracted(dff) ==
  LET keys == GroupKeys(dff, "Player")
      rate == [k \in 1..Len(keys) |->
                 LET games == Len(Group(dff, "Player", keys[k]))
                     rank4 == Len(SelectSeq(dff, LAMBDA r : r.Rank = 4 /\ r.Player = keys[k]))
                 IN [Player |-> keys[k], value |-> Frac(rank4 * 100, games)]]
  IN WithPosition(sort_values_frac(rate, "value", FALSE))

\* (2b) share of games not finished fourth per player, descending
avoidance(dff) ==
  LET keys == GroupKeys(dff, "Player")
      rate == [k \in 1..Len(keys) |->
                 LET games == Len(Group(dff, "Player", keys[k]))
                     rank4 == Len(SelectSeq(dff, LAMBDA r : r.Rank = 4 /\ r.Player = keys[k]))
                 IN [Player |-> keys[k], value |-> Frac((games - rank4) * 100, games)]]
  IN WithPosition(sort_values_frac(rate, "value", FALSE))

\* The bapp added to every game row before the sum.
uma50_bapp_per_game(dff) ==
  LET keys == GroupKeys(dff, "Player")
      adjusted == [k \in 1..Len(keys) |->
                     [Player |-> keys[k],
                      value |-> SumSeq(Column(Group(dff, "Player", keys[k]), "UmaScore_x50"))
                                + Len(Group(dff, "Player", keys[k])) * bapp_get(keys[k])]]
  IN WithPosition(sort_values(adjusted, "value", FALSE))

\* (2c) Yeeeen: scaled uma total per player plus the player's bapp, descending.
\* The bapp is added by uma50.apply(..., axis=1); on a frame without rows apply
\* hands back an empty Series (pandas 1.5 and later) and the column is empty.
uma50(dff) ==
  LET keys == GroupKeys(dff, "Player")
      adjusted == [k \in 1..Len(keys) |->
                     [Player |-> keys[k],
                      value |-> SumSeq(Column(Group(dff, "Player", keys[k]), "UmaScore_x50"))
                                + bapp_get(keys[k])]]
  IN WithPosition(sort_values(adjusted, "value", FALSE))

update_ranking_tables(dff) ==
  LET raised == top_pt(point_sorted(dff)).exception
  IN IF raised # "None"
  THEN [exception |-> raised, tables |-> <<>>]
  ELSE [exception |-> "None",
        tables |-> [point_summary |-> point_summary(dff),
                    highest_score |-> highest_score(dff),
                    avoidance |-> avoidance(dff),
                    uma50 |-> uma50(dff)]]

\* The distinct values of a column in the order in which the frame first shows them.
FirstSeen(frame, name) ==
  LET first == Ascending({i \in 1..Len(frame) :
                            \A j \in 1..(i - 1) : frame[j][name] # frame[i][name]})
  IN [k \in 1..Len(first) |-> frame[first[k]][name]]

\* px.line(dff, x="GameID", y=selected_metric, color="Player"): one trace per
\* player, in the order in which dff first shows the players
update_graph(dff, selected_metric) ==
  LET keys == FirstSeen(dff, "Player")
  IN [exception |-> "None",
      tables |-> [k \in 1..Len(keys) |->
                    [Player |-> keys[k],
                     x |-> Column(Group(dff, "Player", keys[k]), "GameID"),
                     y |-> Column(Group(dff, "Player", keys[k]), selected_metric)]]]

\* The running sum taken down the whole frame, not within each player.
daily_sum_df_ungrouped(dff) ==
  LET dates == GroupKeys(dff, "Date")
      perDate == [d \in 1..Len(dates) |->
                    LET onDate == Group(dff, "Date", dates[d])
                        keys == GroupKeys(onDate, "Player")
                    IN [k \in 1..Len(keys) |->
                          [Date |-> dates[d], Player |-> keys[k],
                           UmaScore |-> SumSeq(Column(Group(onDate, "Player", keys[k]), "UmaScore"))]]]
      sorted == sort_values(Concat(perDate), "Date", TRUE)
  IN [i \in 1..Len(sorted) |->
        [Date |-> sorted[i].Date, Player |-> sorted[i].Player,
         UmaScore |-> sorted[i].UmaScore,
         UmaScore_cumsum |-> SumSeq(Column(SubSeq(sorted, 1, i), "UmaScore"))]]

\* groupby(["Date", "Player"], as_index=False)["UmaScore"].sum(), sort by Date,
\* then the running sum within each player
daily_sum_df(dff) ==
  LET dates == GroupKeys(dff, "Date")
      perDate == [d \in 1..Len(dates) |->
                    LET onDate == Group(dff, "Date", dates[d])
                        keys == GroupKeys(onDate, "Player")
                    IN [k \in 1..Len(keys) |->
                          [Date |-> dates[d], Player |-> keys[k],
                           UmaScore |-> SumSeq(Column(Group(onDate, "Player", keys[k]), "UmaScore"))]]]
      sorted == sort_values(Concat(perDate), "Date", TRUE)
  IN [i \in 1..Len(sorted) |->
        [Date |-> sorted[i].Date, Player |-> sorted[i].Player,
         UmaScore |-> sorted[i].UmaScore,
         UmaScore_cumsum |->
           SumSeq(Column(SelectSeq(SubSeq(sorted, 1, i),
                                   LAMBDA r : r.Player = sorted[i].Player), "UmaScore"))]]

update_daily_uma_graph(dff) ==
  [exception |-> "None", tables |-> daily_sum_df(dff)]

\* The share cut to a whole percent.
round2_whole_percent(num, den) == ((num * 100) \div den) * 100

\* round(2) of num/den * 100, in hundredths of a percent, halves to the even digit
round2(num, den) ==
  LET q == (num * 10000) \div den
      r == (num * 10000) % den
  IN IF 2 * r > den \/ (2 * r = den /\ q % 2 = 1) THEN q + 1 ELSE q

\* pd.crosstab(Player, Rank) -> row shares in percent, rounded to two decimals
rank_rate(dff) ==
  LET keys == GroupKeys(dff, "Player")
      ranks == GroupKeys(dff, "Rank")
      ct(p, r) == Len(SelectSeq(dff, LAMBDA row : row.Player = p /\ row.Rank = r))
      total(p) == SumSeq([j \in 1..Len(ranks) |-> ct(p, ranks[j])])
  IN [columns |-> ranks,
      rows |-> [k \in 1..Len(keys) |->
                  [Player |-> keys[k],
                   rate |-> [j \in 1..Len(ranks) |-> round2(ct(keys[k], ranks[j]), total(keys[k]))]]]]

summary(dff) ==
  LET keys == GroupKeys(dff, "Player")
  IN [k \in 1..Len(keys) |->
        LET rows == Group(dff, "Player", keys[k])
            uma == Column(rows, "UmaScore")
        IN [Player |-> keys[k],
            ScoreSum |-> SumSeq(Column(rows, "Score")),
            UmaSum |-> SumSeq(uma),
            MeanRank |-> Frac(SumSeq(Column(rows, "Rank")), Len(rows)),
            Yeeeen |-> SumSeq(Column(rows, "UmaScore_x50")) + bapp_get(keys[k]),
            Max |-> MaxOf(uma),
            Min |-> MinOf(uma),
            Mean |-> Frac(SumSeq(uma), Len(rows))]]

RateLabel == (1 :> "rate1") @@ (2 :> "rate2") @@ (3 :> "rate3") @@ (4 :> "rate4")

\* The row order of the report: max, min, mean, the rank rates by rank, mean rank,
\* raw total, uma total, Yeeeen.
desired_order(ranks) ==
  <<"Max", "Min", "Mean">> \o [j \in 1..Len(ranks) |-> RateLabel[ranks[j]]]
     \o <<"MeanRank", "ScoreSum", "UmaSum", "Yeeeen">>

update_summary_table(dff) ==
  LET rates == rank_rate(dff)
  IN [exception |-> "None",
      tables |-> [index |-> desired_order(rates.columns),
                  summary |-> summary(dff),
                  rank_rate |-> rates]]

Callbacks == {"update_ranking_tables", "update_graph", "update_daily_uma_graph",
              "update_summary_table"}

\* The filter applied to long_df itself instead of to a copy.
FilterInPlace(w) ==
  /\ loaded
  /\ calls[w].pc = "idle"
  /\ \E cb \in Callbacks, s \in Dates, e \in Dates :
       \E m \in (IF cb = "update_graph" THEN Metrics ELSE {"none"}) :
         /\ long_df' = date_filter(long_df, s, e)
         /\ calls' = [calls EXCEPT ![w] =
                        [pc |-> "filtered", callback |-> cb, start_date |-> s, end_date |-> e,
                         metric |-> m, dff |-> long_df', out |-> <<>>]]
  /\ UNCHANGED <<df, bapp_dict, argsort_ties, loaded>>

\* A callback is entered with the picker's dates and takes its copy of the rows in range.
Filter(w) ==
  /\ loaded
  /\ calls[w].pc = "idle"
  /\ \E cb \in Callbacks, s \in Dates, e \in Dates :
       \E m \in (IF cb = "update_graph" THEN Metrics ELSE {"none"}) :
         calls' = [calls EXCEPT ![w] =
                     [pc |-> "filtered", callback |-> cb, start_date |-> s, end_date |-> e,
                      metric |-> m, dff |-> date_filter(long_df, s, e), out |-> <<>>]]
  /\ UNCHANGED <<df, long_df, bapp_dict, argsort_ties, loaded>>

Finish(w, cb, result) ==
  /\ calls[w].pc = "filtered"
  /\ calls[w].callback = cb
  /\ calls' = [calls EXCEPT ![w].pc = IF result.exception = "None" THEN "done" ELSE "raised",
                            ![w].out = result]
  /\ UNCHANGED <<df, long_df, bapp_dict, argsort_ties, loaded>>

UpdateRankingTables(w) ==
  Finish(w, "update_ranking_tables", update_ranking_tables(calls[w].dff))

UpdateGraph(w) ==
  Finish(w, "update_graph", update_graph(calls[w].dff, calls[w].metric))

UpdateDailyUmaGraph(w) ==
  Finish(w, "update_daily_uma_graph", update_daily_uma_graph(calls[w].dff))

UpdateSummaryTable(w) ==
  Finish(w, "update_summary_table", update_summary_table(calls[w].dff))

\* The response is sent; the worker is free for the next request.
Respond(w) ==
  /\ calls[w].pc \in {"done", "raised"}
  /\ calls' = [calls EXCEPT ![w] = Idle]
  /\ UNCHANGED <<df, long_df, bapp_dict, argsort_ties, loaded>>

Next ==
  \/ GroupbyApply
  \/ \E w \in DOMAIN calls : Filter(w)
  \/ \E w \in DOMAIN calls : UpdateRankingTables(w)
  \/ \E w \in DOMAIN calls : UpdateGraph(w)
  \/ \E w \in DOMAIN calls : UpdateDailyUmaGraph(w)
  \/ \E w \in DOMAIN calls : UpdateSummaryTable(w)
  \/ \E w \in DOMAIN calls : Respond(w)

Spec == Init /\ [][Next]_vars

\* Two requests in flight at once (Flask serves the callbacks from threads), over
\* the score files of one game.
InitConcurrent == InitWith({1, 2}) /\ Len(df) = 1

SpecConcurrent == InitConcurrent /\ [][Next]_vars

(***************************************************************************)
(* Properties                                                              *)
(***************************************************************************)
RowsOf(frame) == {frame[i] : i \in 1..Len(frame)}

RECURSIVE SetSum(_, _)
SetSum(S, name) ==
  IF S = {} THEN 0
  ELSE LET x == CHOOSE y \in S : TRUE IN x[name] + SetSum(S \ {x}, name)

\* The rows of long_df of one player dated within [s, e].
PlayerRows(p, s, e) ==
  {r \in RowsOf(long_df) : r.Player = p /\ s <= r.Date /\ r.Date <= e}

PlayersInRange(s, e) == {p \in Players : PlayerRows(p, s, e) # {}}

Finished(w, cb) == calls[w].pc = "done" /\ calls[w].callback = cb

\* Each player in range has exactly one row in a table.
OneRowEach(table, s, e) ==
  /\ {table[i].Player : i \in 1..Len(table)} = PlayersInRange(s, e)
  /\ Len(table) = Cardinality(PlayersInRange(s, e))

\* C1: once compute_uma_and_rank has run over every game, each game has
\* NumPlayers rows and their ranks are exactly 1..NumPlayers, each used once,
\* also when players of the game have equal scores.
C1_RanksArePermutation ==
  loaded =>
    /\ Len(long_df) = NumPlayers * Len(df)
    /\ \A g \in 0..(Len(df) - 1) :
         LET rows == {i \in 1..Len(long_df) : long_df[i].GameID = g}
         IN /\ Cardinality(rows) = NumPlayers
            /\ \A k \in 1..NumPlayers :
                 Cardinality({i \in rows : long_df[i].Rank = k}) = 1

C1_Witness ==
  /\ loaded
  /\ \E i, j \in 1..Len(long_df) :
       /\ i # j
       /\ long_df[i].GameID = long_df[j].GameID
       /\ long_df[i].Score = long_df[j].Score

\* C2: the uma table sums to zero over the ranks 1..NumPlayers; every row has
\* UmaScore = Score + rank2uma[Rank]; so in every game the UmaScores sum to
\* the raw Scores.
C2_UmaZeroSum ==
  /\ SumSeq([k \in 1..NumPlayers |-> rank2uma[k]]) = 0
  /\ loaded =>
       /\ \A r \in RowsOf(long_df) : r.UmaScore = r.Score + rank2uma[r.Rank]
       /\ \A g \in 0..(Len(df) - 1) :
            LET rows == {r \in RowsOf(long_df) : r.GameID = g}
            IN SetSum(rows, "UmaScore") = SetSum(rows, "Score")

C2_Witness ==
  /\ loaded
  /\ Len(df) >= 2
  /\ \E r \in RowsOf(long_df) : r.Rank = 4 /\ r.UmaScore < r.Score

\* C3: the rows a callback aggregates are exactly the rows of long_df whose
\* date d has start_date <= d <= end_date, both ends included.
C3_RangeInclusive ==
  \A w \in DOMAIN calls :
    calls[w].pc # "idle" =>
      /\ RowsOf(calls[w].dff) =
           {r \in RowsOf(long_df) :
              calls[w].start_date <= r.Date /\ r.Date <= calls[w].end_date}
      /\ Len(calls[w].dff) = Cardinality(RowsOf(calls[w].dff))

C3_Witness ==
  \E w \in DOMAIN calls :
    /\ calls[w].pc = "done"
    /\ calls[w].callback # "update_graph"
    /\ \E r \in RowsOf(calls[w].dff) : r.Date = calls[w].start_date
    /\ \E r \in RowsOf(calls[w].dff) : r.Date = calls[w].end_date
    /\ \E r \in RowsOf(long_df) : r \notin RowsOf(calls[w].dff)

\* C4: a player's Yeeeen, in the ranking and in the summary report, is the sum
\* of the player's UmaScore_x50 over the games in range plus the player's bapp
\* once, whatever the number of games, and plus 0 for a player without a bapp.
C4_Offset(p) == IF p \in DOMAIN bapp_dict THEN bapp_dict[p] ELSE 0

C4_YeeeenOffsetOnce ==
  \A w \in DOMAIN calls :
    LET s == calls[w].start_date
        e == calls[w].end_date
        Expected(p) == SetSum(PlayerRows(p, s, e), "UmaScore_x50") + C4_Offset(p)
    IN /\ Finished(w, "update_ranking_tables") =>
            LET t == calls[w].out.tables.uma50
            IN /\ OneRowEach(t, s, e)
               /\ \A i \in 1..Len(t) : t[i].value = Expected(t[i].Player)
       /\ Finished(w, "update_summary_table") =>
            LET t == calls[w].out.tables.summary
            IN /\ OneRowEach(t, s, e)
               /\ \A i \in 1..Len(t) : t[i].Yeeeen = Expected(t[i].Player)

C4_Witness ==
  \E w \in DOMAIN calls :
    /\ Finished(w, "update_ranking_tables")
    /\ \E p \in DOMAIN bapp_dict :
         /\ bapp_dict[p] # 0
         /\ Cardinality(PlayerRows(p, calls[w].start_date, calls[w].end_date)) >= 2
    /\ \E i \in 1..Len(calls[w].out.tables.uma50) :
         calls[w].out.tables.uma50[i].Player \notin DOMAIN bapp_dict

C6_AvoidanceRate ==
  \A w \in DOMAIN calls :
    Finished(w, "update_ranking_tables") =>
      LET s == calls[w].start_date
          e == calls[w].end_date
          t == calls[w].out.tables.avoidance
      IN /\ OneRowEach(t, s, e)
         /\ \A i \in 1..Len(t) :
              LET games == Cardinality(PlayerRows(t[i].Player, s, e))
                  last == Cardinality({r \in PlayerRows(t[i].Player, s, e) :
                                         r.Rank = NumPlayers})
              IN /\ t[i].value.den > 0
                 /\ t[i].value.num * games = (games - last) * 100 * t[i].value.den

C6_Witness ==
  \E w \in DOMAIN calls :
    /\ Finished(w, "update_ranking_tables")
    /\ \E p \in Players :
         LET rows == PlayerRows(p, calls[w].start_date, calls[w].end_date)
         IN /\ \E r \in rows : r.Rank = NumPlayers
            /\ \E r \in rows : r.Rank # NumPlayers
    /\ \E r \in RowsOf(long_df) : r.Date > calls[w].end_date

\* C7: the time series has one row per (date, player) in range holding the sum
\* of that day's UmaScore, rows are in ascending date order, and each row's
\* cumulative value is the same player's previous cumulative value plus the
\* row's daily total (the daily total alone on the player's first date).
C7_CumulativePerPlayer ==
  \A w \in DOMAIN calls :
    Finished(w, "update_daily_uma_graph") =>
      LET s == calls[w].start_date
          e == calls[w].end_date
          t == calls[w].out.tables
          Day(p, d) == {r \in PlayerRows(p, s, e) : r.Date = d}
          Earlier(i) == {j \in 1..(i - 1) : t[j].Player = t[i].Player}
          Last(S) == CHOOSE j \in S : \A k \in S : k <= j
      IN /\ {<<t[i].Date, t[i].Player>> : i \in 1..Len(t)} =
              {<<r.Date, r.Player>> : r \in UNION {PlayerRows(p, s, e) : p \in Players}}
         /\ \A i, j \in 1..Len(t) :
              (i # j) => <<t[i].Date, t[i].Player>> # <<t[j].Date, t[j].Player>>
         /\ \A i \in 1..Len(t) :
              t[i].UmaScore = SetSum(Day(t[i].Player, t[i].Date), "UmaScore")
         /\ \A i, j \in 1..Len(t) : (i < j) => t[i].Date <= t[j].Date
         /\ \A i \in 1..Len(t) :
              t[i].UmaScore_cumsum =
                (IF Earlier(i) = {} THEN 0 ELSE t[Last(Earlier(i))].UmaScore_cumsum)
                + t[i].UmaScore

C7_Witness ==
  \E w \in DOMAIN calls :
    /\ Finished(w, "update_daily_uma_graph")
    /\ \E i, j \in 1..Len(calls[w].out.tables) :
         /\ i < j
         /\ calls[w].out.tables[i].Player = calls[w].out.tables[j].Player
    /\ \E p \in Players, d \in Dates :
         Cardinality({r \in PlayerRows(p, calls[w].start_date, calls[w].end_date) :
                        r.Date = d}) >= 2

\* C8: in the summary report the rank rates of a player (in hundredths of a
\* percent) are each within half a hundredth of the player's share of games at
\* that rank, and their sum is within half a hundredth per rank the player
\* finished at of 100.00.
C8_Abs(x) == IF x < 0 THEN -x ELSE x

C8_RankRatesSum ==
  \A w \in DOMAIN calls :
    Finished(w, "update_summary_table") =>
      LET s == calls[w].start_date
          e == calls[w].end_date
          t == calls[w].out.tables.rank_rate
      IN /\ OneRowEach(t.rows, s, e)
         /\ {t.columns[j] : j \in 1..Len(t.columns)} =
              {r.Rank : r \in UNION {PlayerRows(p, s, e) : p \in Players}}
         /\ \A k \in 1..Len(t.rows) :
              LET rows == PlayerRows(t.rows[k].Player, s, e)
                  games == Cardinality(rows)
                  At(j) == Cardinality({r \in rows : r.Rank = t.columns[j]})
                  rate == t.rows[k].rate
              IN /\ Len(rate) = Len(t.columns)
                 /\ \A j \in 1..Len(rate) :
                      2 * C8_Abs(rate[j] * games - At(j) * 10000) <= games
                 /\ 2 * C8_Abs(SumSeq(rate) - 10000)
                      <= Cardinality({r.Rank : r \in rows})

C8_Witness ==
  \E w \in DOMAIN calls :
    /\ Finished(w, "update_summary_table")
    /\ \E k \in 1..Len(calls[w].out.tables.rank_rate.rows) :
         SumSeq(calls[w].out.tables.rank_rate.rows[k].rate) # 10000

\* C9: each of the four leaderboards is in descending order of its value, and
\* players with equal values are in ascending order of player label.
C9_Sorted(t, quotients) ==
  LET Greater(a, b) == IF quotients THEN FracLess(b, a) ELSE a > b
  IN \A i \in 1..(Len(t) - 1) :
       \/ Greater(t[i].value, t[i + 1].value)
       \/ /\ ~Greater(t[i + 1].value, t[i].value)
          /\ t[i].Player < t[i + 1].Player

C9_TotalOrder ==
  \A w \in DOMAIN calls :
    Finished(w, "update_ranking_tables") =>
      /\ C9_Sorted(calls[w].out.tables.point_summary, FALSE)
      /\ C9_Sorted(calls[w].out.tables.highest_score, FALSE)
      /\ C9_Sorted(calls[w].out.tables.avoidance, TRUE)
      /\ C9_Sorted(calls[w].out.tables.uma50, FALSE)

\* C10: no callback writes long_df or bapp_dict, and with two requests in
\* flight in any interleaving each callback returns what it returns when it
\* runs alone on the same date range.
C10_Alone(call, original) ==
  LET rows == SelectSeq(original, LAMBDA r : call.start_date <= r.Date /\ r.Date <= call.end_date)
  IN CASE call.callback = "update_ranking_tables" -> update_ranking_tables(rows)
       [] call.callback = "update_graph" -> update_graph(rows, call.metric)
       [] call.callback = "update_daily_uma_graph" -> update_daily_uma_graph(rows)
       [] call.callback = "update_summary_table" -> update_summary_table(rows)

C10_QueriesIndependent ==
  LET original == groupby_apply(melt(df))
  IN /\ loaded => long_df = original
     /\ bapp_dict \in BappDicts
     /\ \A w \in DOMAIN calls :
          calls[w].pc \in {"done", "raised"} => calls[w].out = C10_Alone(calls[w], original)

C10_Witness ==
  \E w, v \in DOMAIN calls :
    /\ w # v
    /\ calls[w].pc = "done"
    /\ calls[v].pc \in {"filtered", "done"}
    /\ <<calls[w].start_date, calls[w].end_date>> # <<calls[v].start_date, calls[v].end_date>>
    /\ calls[w].dff # calls[v].dff

====
